---- MODULE Spec2Model ----
(***************************************************************************)
(* Model of the three JSONL utilities of the repository:                   *)
(*   scripts/split_dataset.py              (splitter)                      *)
(*   scripts/transform_to_conversational.py (conversational transformer)   *)
(*   scripts/transform_to_standard.py       (standard transformer)         *)
(* One run of a utility is a sequence of steps of its __main__ block and   *)
(* of the function it calls; the file system, the process's open file      *)
(* handles, its standard output and the state of the pseudo-random         *)
(* generator are the state.                                                *)
(***************************************************************************)
EXTENDS Integers, Sequences, FiniteSets, Bags, TLC

VARIABLES
    util,        \* which script runs: "split", "conversational", "standard"
    pc,          \* position of the run in the script
    err,         \* "none", or the exception that ended the run
    args,        \* the parsed command line
    input,       \* content of the input file: a sequence of text lines
    dirs,        \* the directories that exist
    files,       \* output path name -> content (sequence of lines) or NoFile
    written,     \* output path names opened for writing by the current run
    handles,     \* file handles the process holds open
    stdout,      \* lines printed so far
    rng,         \* state of the process-wide pseudo-random generator
    lines,       \* split_jsonl: the stripped non-blank lines
    data,        \* split_jsonl: the parsed records (shuffled in place)
    train_data,  \* split_jsonl: data[n_test:]
    test_data,   \* split_jsonl: data[:n_test]
    pos,         \* transform_file: number of input lines consumed
    run,         \* 1 for the first run of the splitter, 2 for the repeated run
    first,       \* the train/test outputs of the first run, once it is repeated
    example,     \* argument of a direct call of transform_example
    transformed  \* what that call returned

vars == << util, pc, err, args, input, dirs, files, written, handles, stdout,
           rng, lines, data, train_data, test_data, pos, run, first,
           example, transformed >>

----------------------------------------------------------------------------
(* Bounds of the model *)

\* longest input file, in lines
MaxLines == 3

\* number of states of the modelled pseudo-random generator
RngMod == 8

----------------------------------------------------------------------------
(* Text, lines and JSON values *)

\* A text is a sequence of tokens; an f-string is the concatenation of
\* its parts.  A path at which there is no file has the content NoFile.
NoFile == "absent"

Keys == {"query", "context", "response"}

\* A JSON object with the given fields (a Python dict after json.loads).
Obj(f) == [type |-> "object", fields |-> f]

\* A JSON value that is not an object (a list, a number, a string, null).
NonObj(v) == [type |-> "other", fields |-> v]

\* A line of the input file: its text without the surrounding whitespace,
\* and whether it has surrounding whitespace.  kind is "blank" (nothing
\* but whitespace), "garbage" (not JSON) or "json" (the text of `value').
BlankLine(ws) == [kind |-> "blank", value |-> "", ws |-> ws]
GarbageLine(g, ws) == [kind |-> "garbage", value |-> g, ws |-> ws]
JsonLine(v, ws) == [kind |-> "json", value |-> v, ws |-> ws]

\* str.strip(): the line without surrounding whitespace.
strip(line) == [line EXCEPT !.ws = FALSE]

\* Truth value of a str: the empty text is false.
truthy(line) == ~(line.kind = "blank" /\ line.ws = FALSE)

\* json.loads succeeds exactly on the text of a JSON value.
parses(line) == line.kind = "json"

json_loads(line) == line.value

\* json.dumps(item) + "\n": one line of an output file.
json_dumps(v) == [kind |-> "json", value |-> v, ws |-> FALSE]

\* The multiset of the elements of s.
RECURSIVE BagOf(_)
BagOf(s) == IF s = << >> THEN EmptyBag ELSE SetToBag({Head(s)}) (+) BagOf(Tail(s))

----------------------------------------------------------------------------
(* Paths and the file system *)

\* os.path.dirname: "" when the path has no directory component.
dirname(path) == path.dir

\* main of split_dataset.py: makedirs only for a non-empty, missing directory.
MakeDirsIfMissing(ds, d) == IF d # "" /\ d \notin ds THEN ds \cup {d} ELSE ds

\* open(path, 'w') can succeed only when the parent directory exists; the
\* current directory ("") always does.
ParentExists(ds, path) == dirname(path) = "" \/ dirname(path) \in ds

\* (variant: the handle is left open)
MissingClose(hs, h) == hs

\* Leaving a `with' block closes the handle it opened, on every exit.
WithExit(hs, h) == hs \ {h}

----------------------------------------------------------------------------
(* The pseudo-random generator (module random) *)

\* (variant: the seed is mixed into the state the generator was in)
SeedKeepsState(state, a) == (state + a) % RngMod

\* random.seed(a): the new state is a function of the seed alone.
random_seed(state, a) == a % RngMod

\* One step of the generator.
NextRng(s) == (5 * s + 3) % RngMod

\* randbelow(n) drawn in state s (after the step): a number in 0 .. n-1.
randbelow(n, s) == (s * n) \div RngMod

Swap(x, i, j) == [x EXCEPT ![i] = x[j], ![j] = x[i]]

\* random.shuffle(x): for i in reversed(range(1, len(x))):
\*                        j = randbelow(i + 1); x[i], x[j] = x[j], x[i]
\* Positions are 1-based here: i runs from Len(x) down to 2, j is in 1 .. i.
RECURSIVE ShuffleFrom(_, _, _)
ShuffleFrom(x, i, s) ==
    IF i < 2 THEN [seq |-> x, rng |-> s]
    ELSE LET s2 == NextRng(s)
             j  == randbelow(i, s2) + 1
         IN  ShuffleFrom(Swap(x, i, j), i - 1, s2)

random_shuffle(x, s) == ShuffleFrom(x, Len(x), s)

----------------------------------------------------------------------------
(* split_jsonl: pure parts *)

\* test_ratio is num/den (den > 0), or not-a-number (den = 0).
Ratio(n, d) == [num |-> n, den |-> d]
IsNaN(r) == r.den = 0

\* (variant: rounding up)
NTestCeil(n_total, r) ==
    IF r.num >= 0 THEN (n_total * r.num + r.den - 1) \div r.den
                  ELSE 0 - ((n_total * (0 - r.num)) \div r.den)

\* int(n_total * test_ratio): truncation toward zero.
NTest(n_total, r) ==
    IF r.num >= 0 THEN (n_total * r.num) \div r.den
                  ELSE 0 - ((n_total * (0 - r.num)) \div r.den)

\* A Python slice bound k on a list of length n: negative counts from the
\* end, and the result is clamped to 0 .. n.
SliceIndex(k, n) ==
    IF k < 0 THEN (IF k + n < 0 THEN 0 ELSE k + n)
             ELSE (IF k > n THEN n ELSE k)

\* data[:k]
SliceTo(x, k) == SubSeq(x, 1, SliceIndex(k, Len(x)))

\* (variant: data[k+1:], off by one)
SliceFromSkipsOne(x, k) == SubSeq(x, SliceIndex(k, Len(x)) + 2, Len(x))

\* data[k:]
SliceFrom(x, k) == SubSeq(x, SliceIndex(k, Len(x)) + 1, Len(x))

\* lines = [line.strip() for line in f if line.strip()]
IsNonBlank(line) == truthy(strip(line))
NonBlankLines(f) ==
    LET kept == SelectSeq(f, IsNonBlank)
    IN  [ i \in 1 .. Len(kept) |-> strip(kept[i]) ]

\* [json.loads(line) for line in lines]
LoadAll(ls) == [ i \in 1 .. Len(ls) |-> json_loads(ls[i]) ]

AllParse(ls) == \A i \in 1 .. Len(ls) : parses(ls[i])

\* write_jsonl: one json.dumps line per item, in order.
JsonlOf(items) == [ i \in 1 .. Len(items) |-> json_dumps(items[i]) ]

----------------------------------------------------------------------------
(* Inputs of the model *)

\* Three records; B lacks "response", C has no recognised key.
RecA == Obj([query |-> << "q1" >>, context |-> << "c1" >>, response |-> << "r1" >>])
RecB == Obj([query |-> << "q2" >>, context |-> << "c2" >>])
RecC == Obj([node_ids |-> << "n" >>])

\* The lines a splitter input is made of: a whitespace-only line, a line
\* that is not JSON, and three records (one written with padding).
SplitLines ==
    { BlankLine(TRUE), GarbageLine("oops", FALSE),
      JsonLine(RecA, FALSE), JsonLine(RecB, TRUE), JsonLine(RecC, FALSE) }

RECURSIVE SeqsUpTo(_, _)
SeqsUpTo(S, n) ==
    IF n = 0 THEN { << >> }
    ELSE LET shorter == SeqsUpTo(S, n - 1)
         IN  shorter \cup { Append(s, x) : s \in { t \in shorter : Len(t) = n - 1 }, x \in S }

Path(d, n) == [dir |-> d, name |-> n]

\* --test_ratio: any float is accepted; 1/5 is the default.
Ratios == { Ratio(0 - 1, 2), Ratio(0, 1), Ratio(1, 5), Ratio(1, 2), Ratio(2, 3),
            Ratio(1, 1), Ratio(3, 2), Ratio(0, 0) }

\* --seed: 42 is the default.
Seeds == { 1, 42 }

\* Generator states a process can start in.
PriorRng == { 0, 5 }

OutDirs == { "", "out" }

SplitArgs ==
    [ train_file : { Path(d, "train") : d \in OutDirs },
      test_file  : { Path(d, "test") : d \in { "", "out2" } },
      test_ratio : Ratios,
      seed       : Seeds ]

NoFiles == [ n \in { "train", "test", "output" } |-> NoFile ]

----------------------------------------------------------------------------
(* split_dataset.py *)

Fail(e) ==
    /\ pc' = "failed"
    /\ err' = e

\* __main__, lines 77-80, first iteration: the directory of train_file.
MainMakeTrainDir ==
    /\ util = "split" /\ pc = "main"
    /\ dirs' = MakeDirsIfMissing(dirs, dirname(args.train_file))
    /\ pc' = "main_test_dir"
    /\ UNCHANGED << util, err, args, input, files, written, handles, stdout, rng,
                    lines, data, train_data, test_data, pos, run, first, example, transformed >>

\* __main__, lines 77-80, second iteration: the directory of test_file.
MainMakeTestDir ==
    /\ util = "split" /\ pc = "main_test_dir"
    /\ dirs' = MakeDirsIfMissing(dirs, dirname(args.test_file))
    /\ pc' = "open_input"
    /\ UNCHANGED << util, err, args, input, files, written, handles, stdout, rng,
                    lines, data, train_data, test_data, pos, run, first, example, transformed >>

\* split_jsonl, line 24: open(input_file, 'r'); an unreadable file raises.
SplitOpenInput ==
    /\ util = "split" /\ pc = "open_input"
    /\ \E ok \in BOOLEAN :
         IF ok THEN /\ handles' = handles \cup { "f" }
                    /\ pc' = "read"
                    /\ err' = err
               ELSE /\ handles' = handles
                    /\ Fail("OSError(input)")
    /\ UNCHANGED << util, args, input, dirs, files, written, stdout, rng,
                    lines, data, train_data, test_data, pos, run, first, example, transformed >>

\* split_jsonl, line 25, and the end of the `with' block of line 24.
SplitReadLines ==
    /\ util = "split" /\ pc = "read"
    /\ lines' = NonBlankLines(input)
    /\ handles' = WithExit(handles, "f")
    /\ pc' = "parse"
    /\ UNCHANGED << util, err, args, input, dirs, files, written, stdout, rng,
                    data, train_data, test_data, pos, run, first, example, transformed >>

\* split_jsonl, line 26: every line must parse, or json.loads raises.
SplitParse ==
    /\ util = "split" /\ pc = "parse"
    /\ IF AllParse(lines)
         THEN /\ data' = LoadAll(lines)
              /\ pc' = "seed"
              /\ err' = err
         ELSE /\ data' = data
              /\ Fail("JSONDecodeError")
    /\ UNCHANGED << util, args, input, dirs, files, written, handles, stdout, rng,
                    lines, train_data, test_data, pos, run, first, example, transformed >>

\* split_jsonl, line 29.
SplitSeed ==
    /\ util = "split" /\ pc = "seed"
    /\ rng' = random_seed(rng, args.seed)
    /\ pc' = "shuffle"
    /\ UNCHANGED << util, err, args, input, dirs, files, written, handles, stdout,
                    lines, data, train_data, test_data, pos, run, first, example, transformed >>

\* split_jsonl, line 30.
SplitShuffle ==
    /\ util = "split" /\ pc = "shuffle"
    /\ LET r == random_shuffle(data, rng)
       IN  /\ data' = r.seq
           /\ rng' = r.rng
    /\ pc' = "slice"
    /\ UNCHANGED << util, err, args, input, dirs, files, written, handles, stdout,
                    lines, train_data, test_data, pos, run, first, example, transformed >>

\* split_jsonl, lines 33-36; int() of a not-a-number raises ValueError.
SplitSlice ==
    /\ util = "split" /\ pc = "slice"
    /\ IF IsNaN(args.test_ratio)
         THEN /\ Fail("ValueError")
              /\ UNCHANGED << train_data, test_data >>
         ELSE LET n_total == Len(data)
                  n_test  == NTest(n_total, args.test_ratio)
              IN  /\ test_data' = SliceTo(data, n_test)
                  /\ train_data' = SliceFrom(data, n_test)
                  /\ pc' = "open_train"
                  /\ err' = err
    /\ UNCHANGED << util, args, input, dirs, files, written, handles, stdout, rng,
                    lines, data, pos, run, first, example, transformed >>

\* write_jsonl, line 39: open(output_file, 'w') creates or truncates the
\* file; a missing parent directory or an unwritable path raises.
OpenForWrite(name, path, h, next) ==
    \E ok \in BOOLEAN :
      IF ok /\ ParentExists(dirs, path)
        THEN /\ handles' = handles \cup { h }
             /\ files' = [files EXCEPT ![name] = << >>]
             /\ written' = written \cup { name }
             /\ pc' = next
             /\ err' = err
        ELSE /\ UNCHANGED << handles, files, written >>
             /\ Fail(IF ParentExists(dirs, path) THEN "OSError(output)"
                                                 ELSE "FileNotFoundError(output)")

\* write_jsonl, lines 40-41, and the end of the `with' block of line 39.
WriteAll(name, items, h, next) ==
    /\ files' = [files EXCEPT ![name] = JsonlOf(items)]
    /\ handles' = WithExit(handles, h)
    /\ pc' = next

\* split_jsonl, line 43.
SplitOpenTrain ==
    /\ util = "split" /\ pc = "open_train"
    /\ OpenForWrite("train", args.train_file, "f_train", "write_train")
    /\ UNCHANGED << util, args, input, dirs, stdout, rng,
                    lines, data, train_data, test_data, pos, run, first, example, transformed >>

SplitWriteTrain ==
    /\ util = "split" /\ pc = "write_train"
    /\ WriteAll("train", train_data, "f_train", "open_test")
    /\ UNCHANGED << util, err, args, input, dirs, written, stdout, rng,
                    lines, data, train_data, test_data, pos, run, first, example, transformed >>

\* split_jsonl, line 44.
SplitOpenTest ==
    /\ util = "split" /\ pc = "open_test"
    /\ OpenForWrite("test", args.test_file, "f_test", "write_test")
    /\ UNCHANGED << util, args, input, dirs, stdout, rng,
                    lines, data, train_data, test_data, pos, run, first, example, transformed >>

SplitWriteTest ==
    /\ util = "split" /\ pc = "write_test"
    /\ WriteAll("test", test_data, "f_test", "summary")
    /\ UNCHANGED << util, err, args, input, dirs, written, stdout, rng,
                    lines, data, train_data, test_data, pos, run, first, example, transformed >>

\* split_jsonl, lines 46-48.
SplitSummary ==
    /\ util = "split" /\ pc = "summary"
    /\ stdout' = stdout \o << << "Total examples", Len(data) >>,
                              << "Train examples", Len(train_data) >>,
                              << "Test examples", Len(test_data) >> >>
    /\ pc' = "done"
    /\ UNCHANGED << util, err, args, input, dirs, files, written, handles, rng,
                    lines, data, train_data, test_data, pos, run, first, example, transformed >>

\* The splitter is run a second time on the same input file with the same
\* arguments: a new process, whose generator starts in any state.  The
\* outputs of the first run are kept aside for comparison.
SplitRunAgain ==
    /\ util = "split" /\ pc = "done" /\ run = 1
    /\ first' = [train |-> files["train"], test |-> files["test"]]
    /\ run' = 2
    /\ rng' \in PriorRng
    /\ pc' = "main"
    /\ written' = {}
    /\ stdout' = << >>
    /\ lines' = << >> /\ data' = << >> /\ train_data' = << >> /\ test_data' = << >>
    /\ UNCHANGED << util, err, args, input, dirs, files, handles, pos, example, transformed >>

SplitInit ==
    /\ util = "split"
    /\ pc = "main"
    /\ err = "none"
    /\ args \in SplitArgs
    /\ input \in SeqsUpTo(SplitLines, MaxLines)
    /\ dirs \in { {}, { "out" } }
    /\ files = NoFiles
    /\ written = {}
    /\ handles = {}
    /\ stdout = << >>
    /\ rng \in PriorRng
    /\ lines = << >> /\ data = << >> /\ train_data = << >> /\ test_data = << >>
    /\ pos = 0
    /\ run = 1
    /\ first = [train |-> NoFile, test |-> NoFile]
    /\ example = "none"
    /\ transformed = "none"

SplitNext ==
    \/ MainMakeTrainDir
    \/ MainMakeTestDir
    \/ SplitOpenInput
    \/ SplitReadLines
    \/ SplitParse
    \/ SplitSeed
    \/ SplitShuffle
    \/ SplitSlice
    \/ SplitOpenTrain
    \/ SplitWriteTrain
    \/ SplitOpenTest
    \/ SplitWriteTest
    \/ SplitSummary
    \/ SplitRunAgain

----------------------------------------------------------------------------
(* transform_example of the two transformers *)

IsDict(v) == v.type = "object"

\* (variant: the default is the key's name)
GetOrKey(ex, key) == IF key \in DOMAIN ex.fields THEN ex.fields[key] ELSE << key >>

\* example.get(key, ''): the value of the key, or the empty text.
Get(ex, key) == IF key \in DOMAIN ex.fields THEN ex.fields[key] ELSE << >>

Instruction ==
    "\nInstruction: From the provided context, please choose exactly one option and respond with the name exactly as it appears."

\* transform_to_conversational.py, lines 30-46.
ConversationalExample(ex) ==
    LET user_message ==
            << "Query: " >> \o Get(ex, "query") \o
            << "\nContext: " >> \o Get(ex, "context") \o
            << Instruction >>
        messages ==
            << [role |-> "user", content |-> user_message],
               [role |-> "assistant", content |-> Get(ex, "response")] >>
    IN  Obj([messages |-> messages])

\* transform_to_standard.py, lines 21-26.
StandardExample(ex) ==
    LET text ==
            << "Query: " >> \o Get(ex, "query") \o
            << "\nContext: " >> \o Get(ex, "context") \o
            << "\nAnswer: " >> \o Get(ex, "response")
    IN  Obj([text |-> text])

\* transform_example of the script that runs.
transform_example(u, ex) ==
    IF u = "conversational" THEN ConversationalExample(ex) ELSE StandardExample(ex)

----------------------------------------------------------------------------
(* transform_to_conversational.py and transform_to_standard.py *)

Transformers == { "conversational", "standard" }

\* The lines a transformer input is made of.
TransformLines ==
    { BlankLine(TRUE), GarbageLine("oops", TRUE),
      JsonLine(RecA, FALSE), JsonLine(RecB, TRUE), JsonLine(RecC, FALSE),
      JsonLine(NonObj(<< "1" >>), FALSE) }

TransformArgs == [ output_file : { Path(d, "output") : d \in OutDirs } ]

\* __main__: os.makedirs(os.path.dirname(args.output_file), exist_ok=True).
\* makedirs('') raises FileNotFoundError.
TransformMakeDirs ==
    /\ util \in Transformers /\ pc = "main"
    /\ IF dirname(args.output_file) = ""
         THEN /\ Fail("FileNotFoundError(makedirs)")
              /\ dirs' = dirs
         ELSE /\ dirs' = dirs \cup { dirname(args.output_file) }
              /\ pc' = "open_input"
              /\ err' = err
    /\ UNCHANGED << util, args, input, files, written, handles, stdout, rng,
                    lines, data, train_data, test_data, pos, run, first, example, transformed >>

\* transform_file, `with' statement: open(input_file, 'r') as fin.
TransformOpenInput ==
    /\ util \in Transformers /\ pc = "open_input"
    /\ \E ok \in BOOLEAN :
         IF ok THEN /\ handles' = handles \cup { "fin" }
                    /\ pc' = "open_output"
                    /\ err' = err
               ELSE /\ handles' = handles
                    /\ Fail("OSError(input)")
    /\ UNCHANGED << util, args, input, dirs, files, written, stdout, rng,
                    lines, data, train_data, test_data, pos, run, first, example, transformed >>

\* transform_file, `with' statement: open(output_file, 'w') as fout; when
\* it raises, the `with' statement closes fin.
TransformOpenOutput ==
    /\ util \in Transformers /\ pc = "open_output"
    /\ \E ok \in BOOLEAN :
         IF ok /\ ParentExists(dirs, args.output_file)
           THEN /\ handles' = handles \cup { "fout" }
                /\ files' = [files EXCEPT !["output"] = << >>]
                /\ written' = written \cup { "output" }
                /\ pc' = "loop"
                /\ err' = err
           ELSE /\ handles' = WithExit(handles, "fin")
                /\ UNCHANGED << files, written >>
                /\ Fail(IF ParentExists(dirs, args.output_file)
                          THEN "OSError(output)" ELSE "FileNotFoundError(output)")
    /\ UNCHANGED << util, args, input, dirs, stdout, rng,
                    lines, data, train_data, test_data, pos, run, first, example, transformed >>

\* The line the loop of transform_file is about to read.
HasLine == util \in Transformers /\ pc = "loop" /\ pos < Len(input)
CurrentLine == strip(input[pos + 1])

\* `if not line: continue'.
TransformSkipBlank ==
    /\ HasLine
    /\ ~truthy(CurrentLine)
    /\ pos' = pos + 1
    /\ UNCHANGED << util, pc, err, args, input, dirs, files, written, handles, stdout, rng,
                    lines, data, train_data, test_data, run, first, example, transformed >>

\* json.loads raises JSONDecodeError: the line is printed and skipped.
TransformSkipInvalid ==
    /\ HasLine
    /\ truthy(CurrentLine) /\ ~parses(CurrentLine)
    /\ stdout' = Append(stdout, << "Error decoding JSON", CurrentLine >>)
    /\ pos' = pos + 1
    /\ UNCHANGED << util, pc, err, args, input, dirs, files, written, handles, rng,
                    lines, data, train_data, test_data, run, first, example, transformed >>

\* (variant: the line is written at the start of the file)
PrependLine(f, l) == << l >> \o f

\* fout.write(...): the line is added at the end of the file.
AppendLine(f, l) == Append(f, l)

\* The line parses to a dict: it is transformed and written.

TransformWrite ==
    /\ HasLine
    /\ truthy(CurrentLine) /\ parses(CurrentLine)
    /\ IsDict(json_loads(CurrentLine))
    /\ files' = [files EXCEPT !["output"] =
                    AppendLine(@, json_dumps(transform_example(util, json_loads(CurrentLine))))]
    /\ pos' = pos + 1
    /\ UNCHANGED << util, pc, err, args, input, dirs, written, handles, stdout, rng,
                    lines, data, train_data, test_data, run, first, example, transformed >>

\* The line parses to a value without .get (a list, a number, a string,
\* null): transform_example raises AttributeError, which nothing catches;
\* the `with' statement closes both files.
TransformRaise ==
    /\ HasLine
    /\ truthy(CurrentLine) /\ parses(CurrentLine)
    /\ ~IsDict(json_loads(CurrentLine))
    /\ handles' = WithExit(WithExit(handles, "fout"), "fin")
    /\ pos' = pos + 1
    /\ Fail("AttributeError")
    /\ UNCHANGED << util, args, input, dirs, files, written, stdout, rng,
                    lines, data, train_data, test_data, run, first, example, transformed >>

\* End of the loop: the `with' statement closes both files, then line 64
\* (44 in the standard transformer) prints.
TransformFinish ==
    /\ util \in Transformers /\ pc = "loop" /\ pos = Len(input)
    /\ handles' = WithExit(WithExit(handles, "fout"), "fin")
    /\ stdout' = Append(stdout, << "Transformed data written to", args.output_file >>)
    /\ pc' = "done"
    /\ UNCHANGED << util, err, args, input, dirs, files, written, rng,
                    lines, data, train_data, test_data, pos, run, first, example, transformed >>

TransformInit ==
    /\ util \in Transformers
    /\ pc = "main"
    /\ err = "none"
    /\ args \in TransformArgs
    /\ input \in SeqsUpTo(TransformLines, MaxLines)
    /\ dirs \in { {}, { "out" } }
    /\ files = NoFiles
    /\ written = {}
    /\ handles = {}
    /\ stdout = << >>
    /\ rng = 0
    /\ lines = << >> /\ data = << >> /\ train_data = << >> /\ test_data = << >>
    /\ pos = 0
    /\ run = 1
    /\ first = [train |-> NoFile, test |-> NoFile]
    /\ example = "none"
    /\ transformed = "none"

TransformNext ==
    \/ TransformMakeDirs
    \/ TransformOpenInput
    \/ TransformOpenOutput
    \/ TransformSkipBlank
    \/ TransformSkipInvalid
    \/ TransformWrite
    \/ TransformRaise
    \/ TransformFinish

----------------------------------------------------------------------------
(* The three utilities *)

Init == SplitInit \/ TransformInit

Next == SplitNext \/ TransformNext

Spec == Init /\ [][Next]_vars

----------------------------------------------------------------------------
(* transform_example called on its own *)

Values == { << >>, << "a" >>, << "b", "c" >> }

\* Every dict with any subset of the three keys, and one value that is
\* not a dict.
Examples ==
    { Obj(f) : f \in UNION { [K -> Values] : K \in SUBSET Keys } }
        \cup { NonObj(<< "1" >>) }

ExampleInit ==
    /\ util \in Transformers
    /\ pc = "call"
    /\ err = "none"
    /\ example \in Examples
    /\ transformed = "none"
    /\ args = [ output_file |-> Path("out", "output") ]
    /\ input = << >>
    /\ dirs = {}
    /\ files = NoFiles
    /\ written = {}
    /\ handles = {}
    /\ stdout = << >>
    /\ rng = 0
    /\ lines = << >> /\ data = << >> /\ train_data = << >> /\ test_data = << >>
    /\ pos = 0
    /\ run = 1
    /\ first = [train |-> NoFile, test |-> NoFile]

\* transform_example(example) returns.
ExampleReturns ==
    /\ pc = "call"
    /\ IsDict(example)
    /\ transformed' = transform_example(util, example)
    /\ pc' = "returned"
    /\ UNCHANGED << util, err, args, input, dirs, files, written, handles, stdout, rng,
                    lines, data, train_data, test_data, pos, run, first, example >>

\* transform_example(example) raises: the argument has no .get.
ExampleRaises ==
    /\ pc = "call"
    /\ ~IsDict(example)
    /\ Fail("AttributeError")
    /\ UNCHANGED << util, args, input, dirs, files, written, handles, stdout, rng,
                    lines, data, train_data, test_data, pos, run, first, example,
                    transformed >>

ExampleNext == ExampleReturns \/ ExampleRaises

SpecExample == ExampleInit /\ [][ExampleNext]_vars

----------------------------------------------------------------------------
(* Properties *)

\* The values written on the lines of a file.
ValuesOf(f) == [ i \in 1 .. Len(f) |-> f[i].value ]

\* The records of the input file: the values of its non-blank lines.
IsBlankText(line) == line.kind = "blank"
IsText(line) == ~IsBlankText(line)
InputRecords == ValuesOf(SelectSeq(input, IsText))

SplitDone == util = "split" /\ pc = "done"

\* C1 (split completeness): when split_jsonl has finished, the train and
\* test files together hold as many records as the input has non-blank
\* lines, they are two disjoint ranges of positions of the shuffled
\* sequence that together cover it, and the multiset of their records is
\* the multiset of the input records, for every seed and every test_ratio.
C1_SplitCompleteness ==
    SplitDone =>
      /\ Len(files["train"]) + Len(files["test"])
           = Cardinality({ i \in 1 .. Len(input) : ~IsBlankText(input[i]) })
      /\ \E k \in 0 .. Len(data) :
           /\ ValuesOf(files["test"]) = [ i \in 1 .. k |-> data[i] ]
           /\ ValuesOf(files["train"]) = [ i \in 1 .. (Len(data) - k) |-> data[k + i] ]
      /\ BagOf(ValuesOf(files["train"])) (+) BagOf(ValuesOf(files["test"]))
           = BagOf(InputRecords)

\* A finished split of an input with a repeated record, with records on
\* both sides.
C1_Witness ==
    /\ SplitDone
    /\ Len(files["train"]) >= 1 /\ Len(files["test"]) >= 2
    /\ \E i, j \in 1 .. Len(input) : i # j /\ input[i] = input[j] /\ input[i].kind = "json"

\* floor(n * r) for r = num/den >= 0: the k with k <= n * r < k + 1.
FloorOf(n, r) == CHOOSE k \in 0 .. (n * r.num) : k * r.den <= n * r.num /\ n * r.num < (k + 1) * r.den

InUnitInterval(r) == ~IsNaN(r) /\ 0 <= r.num /\ r.num <= r.den

\* C2 (split sizing): for test_ratio in [0,1], the test file is the first
\* floor(n_total * test_ratio) records of the shuffled sequence and the
\* train file is the rest, in shuffled order; ratio 0 gives an empty test
\* file, ratio 1 an empty train file, an empty input two empty files, and
\* computing the split raises nothing.
C2_SplitSizing ==
    /\ (SplitDone /\ InUnitInterval(args.test_ratio)) =>
         LET n == Len(data)
             k == FloorOf(n, args.test_ratio)
         IN  /\ files["test"] = [ i \in 1 .. k |-> json_dumps(data[i]) ]
             /\ files["train"] = [ i \in 1 .. (n - k) |-> json_dumps(data[k + i]) ]
             /\ (args.test_ratio.num = 0 => files["test"] = << >>)
             /\ (args.test_ratio.num = args.test_ratio.den => files["train"] = << >>)
             /\ (n = 0 => files["test"] = << >> /\ files["train"] = << >>)
    /\ (util = "split" /\ pc = "failed" /\ err = "ValueError") => ~InUnitInterval(args.test_ratio)

\* A finished split of three records at ratio 1/2, where floor(3/2) = 1.
C2_Witness ==
    /\ SplitDone
    /\ args.test_ratio = Ratio(1, 2)
    /\ Len(data) = 3
    /\ Len(files["test"]) = 1 /\ Len(files["train"]) = 2

\* C3 (split determinism): a second run on the same input file with the
\* same seed and ratio writes the same train file and the same test file
\* as the first, whatever state the generator was in before each run.
C3_SplitDeterminism ==
    (SplitDone /\ run = 2) =>
      /\ files["train"] = first.train
      /\ files["test"] = first.test

\* A finished second run whose shuffle changed the order of three
\* different records.
C3_Witness ==
    /\ SplitDone /\ run = 2
    /\ Len(data) = 3
    /\ data # LoadAll(lines)
    /\ files["test"] # << >> /\ files["train"] # << >>

SplitFailed == util = "split" /\ pc = "failed"

\* C4 (splitter atomicity on fatal errors): in every state in which a
\* splitter run has aborted with a fatal error, neither the train file nor
\* the test file has been written by this run.
C4_NoOutputOnAbort ==
    SplitFailed => written = {}

InTransformer == util \in Transformers

\* The transformer's loop has been entered (both files were opened).
LoopEntered == InTransformer /\ "output" \in written

IsGarbageText(line) == line.kind = "garbage"
IsJsonText(line) == line.kind = "json"

\* Number of the first n input lines that satisfy P.
CountUpTo(P(_), n) == Cardinality({ i \in 1 .. n : P(input[i]) })

\* C5 (transformer skip behaviour): once a non-blank line that is not
\* valid JSON has been read, it has produced no output line, it is
\* reported by a diagnostic holding the line, and the run has not stopped:
\* every line read that is valid JSON has its output line, and the run has
\* not failed.
C5_SkipAndContinue ==
    (LoopEntered /\ \E i \in 1 .. pos : IsGarbageText(input[i])) =>
      /\ \A i \in 1 .. pos :
           IsGarbageText(input[i]) =>
             \E d \in 1 .. Len(stdout) : stdout[d] = << "Error decoding JSON", strip(input[i]) >>
      /\ Len(files["output"]) = CountUpTo(IsJsonText, pos)
      /\ pc # "failed"

\* C6 (transformer completeness): when a transformer run that reached its
\* loop has ended, the output holds exactly one line for each non-blank
\* input line that parses as JSON: the number of non-blank lines minus the
\* number of JSON parse failures.
C6_OneLinePerParsedLine ==
    (LoopEntered /\ pc \in { "done", "failed" }) =>
      Len(files["output"])
        = CountUpTo(IsText, Len(input))
            - CountUpTo(IsGarbageText, Len(input))

\* The output lines of a sequence of record lines under the transformer
\* that runs.
OutputLinesOf(ls) ==
    [ i \in 1 .. Len(ls) |-> json_dumps(transform_example(util, ls[i].value)) ]

IsRecordText(line) == IsJsonText(line) /\ IsDict(line.value)

Field(ex, key) == IF key \in DOMAIN ex.fields THEN ex.fields[key] ELSE << >>

C9_ParentDirectoryEnsured ==
    /\ pc = "failed" =>
         err \notin { "FileNotFoundError(makedirs)", "FileNotFoundError(output)" }
    /\ ("output" \in written) => ParentExists(dirs, args.output_file)
    /\ ("train" \in written) => ParentExists(dirs, args.train_file)
    /\ ("test" \in written) => ParentExists(dirs, args.test_file)

\* C10 (handle closure): in every utility, a run that has ended, normally
\* or by an error, holds no open file handle.
C10_HandlesClosed ==
    pc \in { "done", "failed" } => handles = {}

\* A transformer run ended by an error raised while processing a line,
\* after both files were opened.
C10_Witness ==
    /\ LoopEntered
    /\ pc = "failed" /\ err = "AttributeError"
    /\ files["output"] # << >>

====
